---- MODULE Spec2Model ----
(***************************************************************************)
(* Model of mattport/utils/stats_tracker.py: the StatsTracker store, its   *)
(* two ingestion methods (update_value, update_time), the reporting method *)
(* (print_stats -> handle_stats) and the module-level entry points         *)
(* update_stats / print_stats.                                             *)
(*                                                                         *)
(* Python floats are modelled as exact rationals <<num, den>> in lowest    *)
(* terms with den > 0; None is the empty tuple and an int n is <<n>>, so   *)
(* that "step is None" and "step = 0" stay distinct.                       *)
(***************************************************************************)
EXTENDS Integers, Sequences, FiniteSets, TLC

\* ------------------------------------------------------------------ bounds
MaxCalls == 2

\* Calls made in a behaviour that records the arguments of each call.
MaxArgCalls == 2

\* Calls made in a behaviour that ends by printing a row.
MaxRowCalls == 3

MaxHistory == 2
MaxStep == 1

\* config.graph.max_num_iterations
max_num_iterations == 3

\* ------------------------------------------------------------ Stats (enum)
Stats ==
  {"ITER_LOAD_TIME", "ITER_TRAIN_TIME", "TOTAL_TRAIN_TIME", "RAYS_PER_SEC",
   "CURR_TEST_PSNR", "ETA"}

StatsLabel(k) ==
  CASE k = "ITER_LOAD_TIME" -> "Data Load (ms)"
    [] k = "ITER_TRAIN_TIME" -> "Train Iter (ms)"
    [] k = "TOTAL_TRAIN_TIME" -> "Train Total (time)"
    [] k = "RAYS_PER_SEC" -> "Rays Per Sec (1/s)"
    [] k = "CURR_TEST_PSNR" -> "Test PSNR"
    [] k = "ETA" -> "ETA (time)"

\* The unit tag the label carries: handle_stats tests '"(time)" in k.value'
\* first, then '"(ms)" in k.value'.
LabelUnit(k) ==
  IF k \in {"TOTAL_TRAIN_TIME", "ETA"} THEN "(time)"
  ELSE IF k \in {"ITER_LOAD_TIME", "ITER_TRAIN_TIME"} THEN "(ms)"
  ELSE "plain"

\* The metric names the calls of the model draw from.
Names == {"ITER_TRAIN_TIME", "ETA", "TOTAL_TRAIN_TIME"}

\* --------------------------------------------------------- None and ints
None == << >>

Int_(n) == <<n>>

IsNone(x) == x = None

IntOf(x) == x[1]

\* ------------------------------------------------------ exact arithmetic
Abs(x) == IF x < 0 THEN -x ELSE x

RECURSIVE GCD(_, _)
GCD(a, b) == IF b = 0 THEN a ELSE GCD(b, a % b)

\* n / d for d # 0, in lowest terms with a positive denominator
Rat(n, d) ==
  LET g == GCD(Abs(n), Abs(d))
      s == IF d < 0 THEN -1 ELSE 1
  IN  <<(s * n) \div g, (s * d) \div g>>

RatAdd(a, b) == Rat(a[1] * b[2] + b[1] * a[2], a[2] * b[2])

RatMul(a, b) == Rat(a[1] * b[1], a[2] * b[2])

RECURSIVE RatSum(_)
RatSum(s) == IF s = << >> THEN Rat(0, 1) ELSE RatAdd(Head(s), RatSum(Tail(s)))

\* sum(curr_buffer) / len(curr_buffer), for a non-empty buffer
Mean(s) == LET t == RatSum(s) IN Rat(t[1], t[2] * Len(s))

\* ------------------------------------------------- the ordered dictionary
\* stats_dict is a Python dict: a sequence of entries [k, v] in insertion
\* order, at most one entry per key.
Keys(d) == {d[i].k : i \in DOMAIN d}

Has(d, k) == k \in Keys(d)

Get(d, k) == d[CHOOSE i \in DOMAIN d : d[i].k = k].v

Put(d, k, v) ==
  IF Has(d, k)
  THEN [i \in DOMAIN d |-> IF d[i].k = k THEN [k |-> k, v |-> v] ELSE d[i]]
  ELSE Append(d, [k |-> k, v |-> v])

\* The two shapes a stats_dict value takes: a float, or the dict
\* {"buffer": [...], "avg": ...}.
Scalar(x) == [tag |-> "Scalar", val |-> x]

Averaged(buf, avg) == [tag |-> "Averaged", buffer |-> buf, avg |-> avg]

IsAveraged(d, k) == Has(d, k) /\ Get(d, k).tag = "Averaged"

IsScalar(d, k) == Has(d, k) /\ Get(d, k).tag = "Scalar"

\* ------------------------------------------------------------------ state
VARIABLES
  is_main_process,  \* comms.is_main_process() of the calling process
  enable_stats,     \* config.logging.enable_stats
  max_history,      \* self.max_history
  stats_to_track,   \* self.stats_to_track
  steps_per_log,    \* the period of the print gate (check_print_stats_step)
  step,             \* self.step: None or an int
  stats_dict,       \* self.stats_dict
  new_key,          \* self.new_key
  call,             \* the most recent call: its entry point and arguments
  exc,              \* the exception that call raised, "none" if it returned
  out,              \* the rows that call printed
  ncalls,           \* number of calls made so far
  failed,           \* whether some call so far raised
  submitted         \* per key, the values derived by step-bearing update_time

config == <<is_main_process, enable_stats, max_history, stats_to_track, steps_per_log>>

store == <<step, stats_dict, new_key>>

vars == <<config, store, call, exc, out, ncalls, failed, submitted>>

\* The tracker object as the methods see it.
Self == [step |-> step, stats_dict |-> stats_dict, new_key |-> new_key]

\* A method's outcome: the object as the method leaves it, the exception it
\* raised ("none" when it returns) and the rows it printed.
Return(self) == [self |-> self, exc |-> "none", out |-> << >>]

Raise(self, e) == [self |-> self, exc |-> e, out |-> << >>]

\* update_value without the membership test on stats_to_track.
\* update_value storing with setdefault: a key keeps its first value
update_value_KeepFirst(self, name, value, st) ==
  IF name \in stats_to_track
  THEN Return([step |-> st,
               new_key |-> (~Has(self.stats_dict, name)) \/ self.new_key,
               stats_dict |-> IF Has(self.stats_dict, name)
                              THEN self.stats_dict
                              ELSE Put(self.stats_dict, name, Scalar(value))])
  ELSE Return(self)

update_value_Unguarded(self, name, value, st) ==
  Return([step |-> st,
          new_key |-> (~Has(self.stats_dict, name)) \/ self.new_key,
          stats_dict |-> Put(self.stats_dict, name, Scalar(value))])

\* ---------------------------------------------------------- update_value
update_value(self, name, value, st) ==
  IF name \in stats_to_track
  THEN Return([step |-> st,
               new_key |-> (~Has(self.stats_dict, name)) \/ self.new_key,
               stats_dict |-> Put(self.stats_dict, name, Scalar(value))])
  ELSE Return(self)

\* ----------------------------------------------------------- update_time
\* "if batch_size:" -- None and 0 are both falsy
Truthy(batch_size) == (~IsNone(batch_size)) /\ IntOf(batch_size) # 0

\* val = end_time - start_time; if batch_size: val = batch_size / val
DivisionByZero(start_time, end_time, batch_size) ==
  Truthy(batch_size) /\ end_time - start_time = 0

DerivedVal(start_time, end_time, batch_size) ==
  IF Truthy(batch_size)
  THEN Rat(IntOf(batch_size), end_time - start_time)
  ELSE Rat(end_time - start_time, 1)

\* PushHistory with ">" for ">=": the buffer is popped one insertion late.
PushHistory_OffByOne(curr_buffer, val) ==
  IF Len(curr_buffer) > max_history
  THEN Append(Tail(curr_buffer), val)
  ELSE Append(curr_buffer, val)

\* if len(curr_buffer) >= self.max_history: curr_buffer.pop(0)
\* curr_buffer.append(val)
PushHistory(curr_buffer, val) ==
  IF Len(curr_buffer) >= max_history
  THEN Append(Tail(curr_buffer), val)
  ELSE Append(curr_buffer, val)

\* self.stats_dict.get(name, {"buffer": [], "avg": 0})
CurrHistory(d, name) ==
  IF Has(d, name) THEN Get(d, name) ELSE Averaged(<< >>, Rat(0, 1))

\* StoreVal without line 117: the average read at line 113 is stored again.
StoreVal_StaleAvg(self, name, val, st) ==
  IF ~IsNone(st)
  THEN IF IsScalar(self.stats_dict, name)
       THEN Raise(self, "TypeError")
       ELSE LET curr_history == CurrHistory(self.stats_dict, name)
                curr_buffer == PushHistory(curr_history.buffer, val)
            IN  Return([self EXCEPT !.stats_dict =
                          Put(self.stats_dict, name,
                              Averaged(curr_buffer, curr_history.avg))])
  ELSE Return([self EXCEPT !.stats_dict = Put(self.stats_dict, name, Scalar(val))])

\* lines 109-121: the branch on "step is not None"
StoreVal(self, name, val, st) ==
  IF ~IsNone(st)
  THEN IF IsScalar(self.stats_dict, name)
       THEN Raise(self, "TypeError")  \* a float is not subscriptable
       ELSE LET curr_buffer == PushHistory(CurrHistory(self.stats_dict, name).buffer, val)
                curr_avg == Mean(curr_buffer)
            IN  Return([self EXCEPT !.stats_dict =
                          Put(self.stats_dict, name, Averaged(curr_buffer, curr_avg))])
  ELSE Return([self EXCEPT !.stats_dict = Put(self.stats_dict, name, Scalar(val))])

\* UpdateETA multiplying by the latest sample instead of the average.
UpdateETA_Untracked(self, name, st) ==
  IF name = "ITER_TRAIN_TIME"
  THEN IF IsNone(st) \/ ~IsAveraged(self.stats_dict, name)
       THEN Raise(self, "TypeError")
       ELSE LET remain_iter == max_num_iterations - IntOf(st)
            IN  Return([self EXCEPT !.stats_dict =
                          Put(self.stats_dict, "ETA",
                              Scalar(RatMul(Rat(remain_iter, 1),
                                            Get(self.stats_dict, name).avg)))])
  ELSE Return(self)

UpdateETA_LatestSample(self, name, st) ==
  IF name = "ITER_TRAIN_TIME" /\ "ETA" \in stats_to_track
  THEN IF IsNone(st) \/ ~IsAveraged(self.stats_dict, name)
       THEN Raise(self, "TypeError")
       ELSE LET remain_iter == max_num_iterations - IntOf(st)
                buf == Get(self.stats_dict, name).buffer
            IN  Return([self EXCEPT !.stats_dict =
                          Put(self.stats_dict, "ETA",
                              Scalar(RatMul(Rat(remain_iter, 1), buf[Len(buf)])))])
  ELSE Return(self)

\* lines 123-126: the ETA side effect
UpdateETA(self, name, st) ==
  IF name = "ITER_TRAIN_TIME" /\ "ETA" \in stats_to_track
  THEN IF IsNone(st)
       THEN Raise(self, "TypeError")  \* int - None
       ELSE IF ~IsAveraged(self.stats_dict, name)
       THEN Raise(self, "TypeError")  \* float["avg"]
       ELSE LET remain_iter == max_num_iterations - IntOf(st)
            IN  Return([self EXCEPT !.stats_dict =
                          Put(self.stats_dict, "ETA",
                              Scalar(RatMul(Rat(remain_iter, 1),
                                            Get(self.stats_dict, name).avg)))])
  ELSE Return(self)

update_time(self, name, start_time, end_time, st, batch_size) ==
  IF name \in stats_to_track
  THEN LET s1 == [self EXCEPT !.step = st,
                              !.new_key = (~Has(self.stats_dict, name)) \/ self.new_key]
       IN  IF DivisionByZero(start_time, end_time, batch_size)
           THEN Raise(s1, "ZeroDivisionError")
           ELSE LET r == StoreVal(s1, name,
                                  DerivedVal(start_time, end_time, batch_size), st)
                IN  IF r.exc # "none" THEN r ELSE UpdateETA(r.self, name, st)
  ELSE Return(self)

\* ---------------------------------------------------------- handle_stats
\* round(x) to the nearest integer, for the fixed-point renderings below
Round(x) == (2 * x[1] + x[2]) \div (2 * x[2])

\* f"{v:0.4f}" as the number of 1e-4 units it prints, f"{ms:0.4f}" likewise
\* for ms = v * 1e3, str(datetime.timedelta(seconds=v)) as the microseconds
\* the timedelta holds.
Format(k, v) ==
  IF LabelUnit(k) = "(time)"
  THEN [fmt |-> "timedelta", n |-> Round(RatMul(v, Rat(1000000, 1)))]
  ELSE IF LabelUnit(k) = "(ms)"
  THEN [fmt |-> "0.4f", n |-> Round(RatMul(RatMul(v, Rat(1000, 1)), Rat(10000, 1)))]
  ELSE [fmt |-> "0.4f", n |-> Round(RatMul(v, Rat(10000, 1)))]

\* handle_stats showing the newest sample of a history
Shown_LatestSample(v) ==
  IF v.tag = "Averaged" THEN v.buffer[Len(v.buffer)] ELSE v.val

\* if isinstance(v, dict): v = v["avg"]
Shown(v) == IF v.tag = "Averaged" THEN v.avg ELSE v.val

\* curr_mssg: the step, the percentage with two decimals (as the number of
\* 0.01 units), then one column per entry of stats_dict in dict order
Row(self, fraction_done) ==
  [step |-> IntOf(self.step),
   pct |-> Round(RatMul(RatMul(fraction_done, Rat(100, 1)), Rat(100, 1))),
   cols |-> [i \in DOMAIN self.stats_dict |->
               [k |-> self.stats_dict[i].k,
                v |-> Format(self.stats_dict[i].k, Shown(self.stats_dict[i].v))]]]

\* handle_stats printing from step 0 on
handle_stats_FromZero(self, fraction_done) ==
  IF IsNone(self.step)
  THEN Raise(self, "TypeError")
  ELSE IF IntOf(self.step) >= 0
  THEN [self |-> self, exc |-> "none", out |-> <<Row(self, fraction_done)>>]
  ELSE Return(self)

\* StatsTracker.handle_stats
handle_stats(self, fraction_done) ==
  IF IsNone(self.step)
  THEN Raise(self, "TypeError")  \* None > 0
  ELSE IF IntOf(self.step) > 0
  THEN [self |-> self, exc |-> "none", out |-> <<Row(self, fraction_done)>>]
  ELSE Return(self)

\* ------------------------------------------------------------- decorators
\* check_stats_enabled and check_main_thread, applied to every method by
\* decorate_all: the method runs only on an enabled store in the main process.
check_stats_enabled == enable_stats

check_main_thread == is_main_process

\* check_print_stats_step: the method runs only every steps_per_log steps.
check_print_stats_step(self, r) ==
  IF IsNone(self.step)
  THEN Raise(self, "TypeError")  \* None % int
  ELSE IF IntOf(self.step) % steps_per_log = 0 THEN r ELSE Return(self)

\* The class decorated with check_main_thread only.
Decorated_MainOnly(self, r) ==
  IF check_main_thread THEN r ELSE Return(self)

Decorated(self, r) ==
  IF check_stats_enabled /\ check_main_thread THEN r ELSE Return(self)

\* StatsTracker.print_stats
tracker_print_stats(self, fraction_done) ==
  Decorated(self, check_print_stats_step(self, handle_stats(self, fraction_done)))

\* ------------------------------------------------- module-level functions
\* update_stats whose else branch returns instead of raising
update_stats_Fallthrough(self, args) ==
  IF ~is_main_process
  THEN Raise(self, "AssertionError")
  ELSE IF "value" \in DOMAIN args
  THEN Decorated(self, update_value(self, args.name, args.value, args.step))
  ELSE IF "start_time" \in DOMAIN args
  THEN Decorated(self, update_time(self, args.name, args.start_time, args.end_time,
                                   args.step, args.batch_size))
  ELSE Return(self)

\* update_stats without the assertion of line 19
update_stats_NoAssert(self, args) ==
  IF "value" \in DOMAIN args
  THEN Decorated(self, update_value(self, args.name, args.value, args.step))
  ELSE IF "start_time" \in DOMAIN args
  THEN Decorated(self, update_time(self, args.name, args.start_time, args.end_time,
                                   args.step, args.batch_size))
  ELSE Raise(self, "NotImplementedError")

\* update_stats(args): args is the dict of keyword arguments
update_stats(self, args) ==
  IF ~is_main_process
  THEN Raise(self, "AssertionError")
  ELSE IF "value" \in DOMAIN args
  THEN Decorated(self, update_value(self, args.name, args.value, args.step))
  ELSE IF "start_time" \in DOMAIN args
  THEN Decorated(self, update_time(self, args.name, args.start_time, args.end_time,
                                   args.step, args.batch_size))
  ELSE Raise(self, "NotImplementedError")

print_stats(self, fraction_done) ==
  IF ~is_main_process
  THEN Raise(self, "AssertionError")
  ELSE tracker_print_stats(self, fraction_done)

\* ------------------------------------------------------------------ inputs
Steps == {Int_(n) : n \in 0 .. MaxStep}

OptSteps == {None} \cup Steps

Times == {0, 1}

BatchSizes == {None, Int_(0), Int_(2)}

Values == {Rat(0, 1), Rat(1, 1)}

FractionsDone == {Rat(0, 1), Rat(1, 2)}

TrackedChoices == SUBSET Names

StepsPerLog == {1, 2}

\* ------------------------------------------------------------------- Init
\* setup_stats_tracker: the main process constructs the tracker; __init__
\* creates the attributes only when enable_stats holds.
Init ==
  /\ is_main_process \in BOOLEAN
  /\ enable_stats \in BOOLEAN
  /\ max_history \in 1 .. MaxHistory
  /\ stats_to_track \in TrackedChoices
  /\ steps_per_log \in StepsPerLog
  /\ step = IF is_main_process /\ enable_stats THEN Int_(0) ELSE None
  /\ stats_dict = << >>
  /\ new_key = FALSE
  /\ call = [op |-> "init", name |-> "", step |-> None]
  /\ exc = "none"
  /\ out = << >>
  /\ ncalls = 0
  /\ failed = FALSE
  /\ submitted = [k \in Names |-> << >>]

\* ---------------------------------------------------------------- actions
\* The effect of one call on the state: the object as the call left it,
\* the exception and the output.
Effect(r, c) ==
  /\ step' = r.self.step
  /\ stats_dict' = r.self.stats_dict
  /\ new_key' = r.self.new_key
  /\ exc' = r.exc
  /\ out' = r.out
  /\ call' = c
  /\ ncalls' = ncalls + 1
  /\ failed' = (failed \/ r.exc # "none")
  /\ UNCHANGED config

\* What call records of a call: its entry point, name and step, and in the
\* specifications that ask for it (rec) the whole dict of arguments and the
\* tracker as the call found it.
CallRecord(op, name, st, args, rec) ==
  IF rec
  THEN [op |-> op, name |-> name, step |-> st, args |-> args, before |-> Self]
  ELSE [op |-> op, name |-> name, step |-> st]

\* update_stats({"name": .., "value": .., "step": ..}), at most limit calls
UpdateValueOf(limit, rec) ==
  \E name \in Names, value \in Values, st \in Steps :
    LET args == [name |-> name, value |-> value, step |-> st]
    IN  /\ ncalls < limit
        /\ Effect(update_stats(Self, args),
                  CallRecord("update_value", name, st, args, rec))
        /\ UNCHANGED submitted

\* update_stats({"name": .., "start_time": .., "end_time": .., ...})
UpdateTimeOf(limit, rec) ==
  \E name \in Names, start_time \in Times, end_time \in Times,
     st \in OptSteps, batch_size \in BatchSizes :
    LET args == [name |-> name, start_time |-> start_time, end_time |-> end_time,
                 step |-> st, batch_size |-> batch_size]
    IN  /\ ncalls < limit
        /\ start_time <= end_time
        /\ Effect(update_stats(Self, args),
                  CallRecord("update_time", name, st, args, rec))
        /\ submitted' =
             IF /\ is_main_process /\ enable_stats /\ name \in stats_to_track
                /\ ~IsNone(st)
                /\ ~(batch_size \notin {None, Int_(0)} /\ end_time = start_time)
             THEN [submitted EXCEPT ![name] =
                     Append(@, IF batch_size \in {None, Int_(0)}
                               THEN Rat(end_time - start_time, 1)
                               ELSE Rat(IntOf(batch_size), end_time - start_time))]
             ELSE submitted

\* update_stats(args) with neither "value" nor "start_time" in args
UpdateUnsupportedOf(limit, rec) ==
  \E name \in Names :
    LET args == [name |-> name]
    IN  /\ ncalls < limit
        /\ Effect(update_stats(Self, args),
                  CallRecord("update_stats", name, None, args, rec))
        /\ UNCHANGED submitted

\* print_stats(fraction_done)
PrintStatsOf(limit, rec) ==
  \E fraction_done \in FractionsDone :
    /\ ncalls < limit
    /\ Effect(print_stats(Self, fraction_done),
              CallRecord("print_stats", "", None,
                         [fraction_done |-> fraction_done], rec))
    /\ UNCHANGED submitted

UpdateValue == UpdateValueOf(MaxCalls, FALSE)

UpdateTime == UpdateTimeOf(MaxCalls, FALSE)

UpdateUnsupported == UpdateUnsupportedOf(MaxCalls, FALSE)

PrintStats == PrintStatsOf(MaxCalls, FALSE)

Next == UpdateValue \/ UpdateTime \/ UpdateUnsupported \/ PrintStats

Spec == Init /\ [][Next]_vars

\* ------------------------------------------- calls with their arguments
\* The same calls on an enabled tracker in the main process, each one
\* recorded with all its arguments and the tracker it was made on.
InitArgs ==
  /\ is_main_process = TRUE
  /\ enable_stats = TRUE
  /\ max_history = MaxHistory
  /\ stats_to_track \in TrackedChoices
  /\ steps_per_log = 1
  /\ step = Int_(0)
  /\ stats_dict = << >>
  /\ new_key = FALSE
  /\ call = CallRecord("init", "", None, << >>, TRUE)
  /\ exc = "none"
  /\ out = << >>
  /\ ncalls = 0
  /\ failed = FALSE
  /\ submitted = [k \in Names |-> << >>]

UpdateValueArgs == UpdateValueOf(MaxArgCalls, TRUE)

UpdateTimeArgs == UpdateTimeOf(MaxArgCalls, TRUE)

UpdateUnsupportedArgs == UpdateUnsupportedOf(MaxArgCalls, TRUE)

PrintStatsArgs == PrintStatsOf(MaxArgCalls, TRUE)

NextArgs == UpdateValueArgs \/ UpdateTimeArgs \/ UpdateUnsupportedArgs \/ PrintStatsArgs

SpecArgs == InitArgs /\ [][NextArgs]_vars

\* ------------------------------------------------- longer runs of calls
\* Runs of MaxRowCalls calls on an enabled tracker in the main process that
\* prints at every step and tracks every name, with ETA or without it: long
\* enough to fill a history with two samples and then print the row.
InitRows ==
  /\ is_main_process = TRUE
  /\ enable_stats = TRUE
  /\ max_history = MaxHistory
  /\ stats_to_track \in {Names, Names \ {"ETA"}}
  /\ steps_per_log = 1
  /\ step = Int_(0)
  /\ stats_dict = << >>
  /\ new_key = FALSE
  /\ call = CallRecord("init", "", None, << >>, FALSE)
  /\ exc = "none"
  /\ out = << >>
  /\ ncalls = 0
  /\ failed = FALSE
  /\ submitted = [k \in Names |-> << >>]

UpdateValueRows == UpdateValueOf(MaxRowCalls, FALSE)

UpdateTimeRows == UpdateTimeOf(MaxRowCalls, FALSE)

UpdateUnsupportedRows == UpdateUnsupportedOf(MaxRowCalls, FALSE)

PrintStatsRows == PrintStatsOf(MaxRowCalls, FALSE)

NextRows == UpdateValueRows \/ UpdateTimeRows \/ UpdateUnsupportedRows \/ PrintStatsRows

SpecRows == InitRows /\ [][NextRows]_vars

\* ================================================================ claims
\* A store exists and runs its methods: the main process, stats enabled.
Live == is_main_process /\ enable_stats

\* The most recent call was an ingestion call on a tracked key of a live store.
TrackedUpdate(c) ==
  /\ Live
  /\ c.op \in {"update_value", "update_time"}
  /\ c.name \in stats_to_track

\* ... and it was update_time with step present.
StepBearingInterval(c) ==
  TrackedUpdate(c) /\ c.op = "update_time" /\ ~IsNone(c.step)

Min(a, b) == IF a < b THEN a ELSE b

LastN(s, n) == SubSeq(s, Len(s) - n + 1, Len(s))

\* avg is the arithmetic mean of buf: avg * len(buf) = sum(buf)
IsMeanOf(avg, buf) ==
  buf # << >> /\ RatMul(avg, Rat(Len(buf), 1)) = RatSum(buf)

\* The ETA entry of the store, << >> when there is none.
ETAEntry(d) == IF Has(d, "ETA") THEN <<Get(d, "ETA")>> ELSE << >>

C3_UntrackedNoOp ==
  [][( /\ call'.op \in {"update_value", "update_time"}
       /\ call'.name \notin stats_to_track )
     => UNCHANGED store
    ]_vars

\* update_time on the untracked iteration-duration metric while ETA is
\* tracked, on a store that already holds data, with a step argument that
\* differs from the current step.
C3_Witness ==
  /\ Live
  /\ call.op = "update_time" /\ call.name = "ITER_TRAIN_TIME"
  /\ "ITER_TRAIN_TIME" \notin stats_to_track /\ "ETA" \in stats_to_track
  /\ stats_dict # << >>
  /\ call.step # step

\* ---------------------------------------------------------------------- C4
\* C4: with ITER_TRAIN_TIME and ETA both tracked, after a step-bearing
\* update_time on ITER_TRAIN_TIME with step s has returned, the ETA entry is
\* the number (max_num_iterations - s) * avg, avg being the average
\* ITER_TRAIN_TIME holds after that call.
C4_ETADerivation ==
  ( /\ StepBearingInterval(call) /\ call.name = "ITER_TRAIN_TIME"
    /\ "ETA" \in stats_to_track /\ exc = "none" )
  => /\ IsScalar(stats_dict, "ETA")
     /\ IsAveraged(stats_dict, "ITER_TRAIN_TIME")
     /\ LET eta == Get(stats_dict, "ETA").val
            avg == Get(stats_dict, "ITER_TRAIN_TIME").avg
        IN  eta[1] * avg[2] =
              (max_num_iterations - IntOf(call.step)) * avg[1] * eta[2]

\* The second sample of ITER_TRAIN_TIME differs from the first and both are
\* in the buffer, so the average is neither sample.
C4_Witness ==
  /\ StepBearingInterval(call) /\ call.name = "ITER_TRAIN_TIME"
  /\ "ETA" \in stats_to_track /\ exc = "none"
  /\ IsAveraged(stats_dict, "ITER_TRAIN_TIME")
  /\ LET b == Get(stats_dict, "ITER_TRAIN_TIME").buffer
     IN  Len(b) = 2 /\ b[1] # b[2]
  /\ call.step = Int_(1)

\* ---------------------------------------------------------------------- C5
\* C5: the ETA entry is created or changed only by update_time on
\* ITER_TRAIN_TIME.
C5_ETAOnlyDerived ==
  [][ETAEntry(stats_dict') # ETAEntry(stats_dict)
     => call'.op = "update_time" /\ call'.name = "ITER_TRAIN_TIME"
    ]_vars

\* ---------------------------------------------------------------------- C6
\* C6: a key that has a state keeps it and keeps its shape, Scalar or
\* Averaged, under every later call.
C6_ShapeFixed ==
  [][\A k \in Names :
       Has(stats_dict, k)
       => /\ Has(stats_dict', k)
          /\ Get(stats_dict', k).tag = Get(stats_dict, k).tag
    ]_vars

\* ---------------------------------------------------------------------- C7
\* C7: the step counter is the step argument of the most recent step-bearing
\* update of a tracked key, 0 before the first one: a step-bearing update of
\* a tracked key sets it, and no other call changes it.
C7_StepCounter ==
  [][IF TrackedUpdate(call') /\ ~IsNone(call'.step)
     THEN step' = call'.step
     ELSE step' = step
    ]_vars

\* ---------------------------------------------------------------------- C8
\* C8: an ingestion call that turns new_key from unset to set finds its key
\* absent from stats_dict and leaves it present, and every ingestion call
\* that adds a key to stats_dict leaves new_key set.
C8_NewKeyFlag ==
  [][call'.op \in {"update_value", "update_time"}
     => /\ (~new_key /\ new_key')
             => ~Has(stats_dict, call'.name) /\ Has(stats_dict', call'.name)
        /\ Keys(stats_dict') # Keys(stats_dict) => new_key'
    ]_vars

\* ---------------------------------------------------------------------- C9
\* C9: after a print_stats call that returns, new_key is unset.
C9_PrintClearsFlag ==
  (Live /\ call.op = "print_stats" /\ exc = "none") => ~new_key

\* --------------------------------------------------------------------- C10
\* C10: on a store configured disabled, update_value, update_time and
\* print_stats never raise, print no row, and the store holds no data.
C10_DisabledNoOp ==
  (is_main_process /\ ~enable_stats)
  => /\ stats_dict = << >> /\ IsNone(step) /\ ~new_key
     /\ out = << >>
     /\ call.op \in {"update_value", "update_time", "print_stats"} => exc = "none"

\* A disabled store after an ingestion call on a key its configuration
\* tracks, followed by print_stats.
C10_Witness ==
  /\ is_main_process /\ ~enable_stats
  /\ ncalls = 2 /\ call.op = "print_stats"
  /\ stats_to_track # {}

\* C11: in a process that is not the main process every update_stats and
\* print_stats call raises (AssertionError) and nothing is stored: such a
\* process has no tracker, no step, no entries, no flag and prints nothing.
C11_RoleViolation ==
  ~is_main_process =>
    /\ call.op # "init" => exc = "AssertionError"
    /\ failed = (ncalls > 0)
    /\ IsNone(step)
    /\ stats_dict = << >>
    /\ ~new_key
    /\ out = << >>

\* Two calls were made outside the main process, the last one an update of a
\* key the configuration tracks with statistics enabled.
C11_Witness ==
  /\ ~is_main_process
  /\ enable_stats
  /\ ncalls = 2
  /\ call.op \in {"update_value", "update_time"}
  /\ call.name \in stats_to_track
  /\ exc = "AssertionError"

\* C12: in the main process an update_stats call whose arguments hold neither
\* "value" nor "start_time" raises NotImplementedError and leaves step,
\* stats_dict and new_key as they were; a call with "value" goes to
\* update_value (it returns, and on a tracked key of a live store leaves a
\* scalar and the call's step); a call with "start_time" and no "value" goes to
\* update_time (when it returns on a tracked key of a live store, the entry is
\* averaged if the call had a step and scalar if it had none).
C12_Dispatch ==
  [][is_main_process =>
       /\ call'.op = "update_stats" =>
            exc' = "NotImplementedError" /\ UNCHANGED store /\ out' = << >>
       /\ call'.op = "update_value" =>
            /\ exc' = "none"
            /\ TrackedUpdate(call') =>
                 IsScalar(stats_dict', call'.name) /\ step' = call'.step
       /\ (call'.op = "update_time" /\ exc' = "none" /\ TrackedUpdate(call')) =>
            /\ step' = call'.step
            /\ IF IsNone(call'.step)
               THEN IsScalar(stats_dict', call'.name)
               ELSE IsAveraged(stats_dict', call'.name)]_vars

\* An unsupported update request failed on a live store that already held an
\* entry.
C12_Witness ==
  /\ Live
  /\ call.op = "update_stats"
  /\ exc = "NotImplementedError"
  /\ stats_dict # << >>
  /\ new_key

\* C16: a print_stats call made while step is 0 prints no row, whatever
\* stats_dict holds; a row is printed only by a print_stats call made while
\* step is greater than 0.
C16_NoRowAtStepZero ==
  /\ (call.op = "print_stats" /\ step = Int_(0)) => out = << >>
  /\ out # << >> =>
       /\ call.op = "print_stats"
       /\ ~IsNone(step)
       /\ IntOf(step) > 0
       /\ out[1].step = IntOf(step)

\* print_stats returned on a live store at step 0 that holds an entry.
C16_Witness ==
  /\ Live
  /\ call.op = "print_stats"
  /\ exc = "none"
  /\ step = Int_(0)
  /\ stats_dict # << >>
  /\ out = << >>

\* C19: every key of stats_dict is a member of stats_to_track, ETA included
\* (it is there only when ETA is tracked), and no call changes stats_to_track.
C19_KeysTracked ==
  [][/\ stats_to_track' = stats_to_track
     /\ Keys(stats_dict) \subseteq stats_to_track
     /\ Keys(stats_dict') \subseteq stats_to_track']_vars

\* ETA was derived on a store that tracks it while another name, which a call
\* then tried to update, is not tracked.
C19_Witness ==
  /\ Live
  /\ Has(stats_dict, "ETA")
  /\ Has(stats_dict, "ITER_TRAIN_TIME")
  /\ stats_to_track = {"ITER_TRAIN_TIME", "ETA"}
  /\ call.op \in {"update_value", "update_time"}
  /\ call.name = "TOTAL_TRAIN_TIME"

\* C17: an ingestion call (update_value or update_time) that raises leaves
\* step, stats_dict and new_key exactly as they were before the call.
C17_FailedCallUnchanged ==
  [][(/\ Live
      /\ call'.op \in {"update_value", "update_time"}
      /\ exc' # "none")
     => UNCHANGED store]_vars

\* C13: on an enabled tracker in the main process, update_time on any tracked
\* key (ITER_TRAIN_TIME included, ETA tracked or not) with no step and
\* end_time > start_time returns without raising and leaves under the key the
\* scalar end_time - start_time when no batch_size was given, and
\* batch_size / (end_time - start_time) when a positive one was.
C13_StepAbsentInterval ==
  [][(/\ call'.op = "update_time"
      /\ call'.name \in stats_to_track
      /\ IsNone(call'.args.step)
      /\ call'.args.end_time > call'.args.start_time
      /\ IsNone(call'.args.batch_size) \/ IntOf(call'.args.batch_size) > 0)
     => LET a == call'.args
            d == a.end_time - a.start_time
        IN  /\ exc' = "none"
            /\ Has(stats_dict', a.name)
            /\ Get(stats_dict', a.name) =
                 Scalar(IF IsNone(a.batch_size)
                        THEN Rat(d, 1)
                        ELSE Rat(IntOf(a.batch_size), d))]_vars

\* C14: when update_value(k, v1, s) on a tracked key k is followed at once by
\* update_value(k, v2, s), step, stats_dict and new_key end as the second call
\* alone would have left them on the tracker the first call found; with
\* v1 = v2 the second call changes nothing.
C14_LastWriteWins ==
  [][(/\ call.op = "update_value"
      /\ call'.op = "update_value"
      /\ call'.name = call.name
      /\ call'.step = call.step
      /\ call.name \in stats_to_track)
     => LET only == update_stats(call.before, call'.args)
        IN  /\ exc' = "none"
            /\ only.exc = "none"
            /\ store' = <<only.self.step, only.self.stats_dict, only.self.new_key>>
            /\ call'.args.value = call.args.value => UNCHANGED store]_vars

\* update_value was called twice in a row on one tracked key with one step and
\* two different values: the tracker the second call found holds only that key,
\* as a scalar that differs from the second value, at the second call's step.
C14_Witness ==
  /\ ncalls = 2
  /\ call.op = "update_value"
  /\ call.name \in stats_to_track
  /\ call.before.step = call.step
  /\ Keys(call.before.stats_dict) = {call.name}
  /\ IsScalar(call.before.stats_dict, call.name)
  /\ Get(call.before.stats_dict, call.name).val # call.args.value
  /\ Get(stats_dict, call.name) = Scalar(call.args.value)

\* C18: on an enabled tracker in the main process, print_stats returns without
\* raising whenever every call made before it returned, also when the latest
\* tracked update was update_time without a step.
C18_PrintAfterSuccess ==
  [][(/\ Live
      /\ ~failed
      /\ call'.op = "print_stats")
     => exc' = "none"]_vars

\* The keys of a dict in the order of their first insertion.
KeySeq(d) == [i \in DOMAIN d |-> d[i].k]

IsPrefix(s, t) == Len(s) <= Len(t) /\ SubSeq(t, 1, Len(s)) = s

====
